---- MODULE Spec2Model ----
(***************************************************************************)
(* Model of van::pool (src/pool.h): the slab/free-list Pool<T>, the        *)
(* process-wide Channel registry with its single observer, the Monitor,    *)
(* and the tls / singleton accessors.                                      *)
(*                                                                         *)
(* A pool object lives at an address of PoolAddrs; the address is the      *)
(* Pool<void>* identity the Channel and the Monitor store.  A slot (Obj)   *)
(* is named <<block, index>>: block is the malloc'ed Block it lies in,     *)
(* index its position in that block.  The intrusive free list (free_ and   *)
(* the next_ links) is the sequence of its slots, head first.              *)
(***************************************************************************)
EXTENDS Integers, Sequences, FiniteSets, TLC

VARIABLES
    pool,         \* address -> the Pool<T> object stored there
    chan_pools_,  \* Channel::pools_   (type -> set of pool addresses)
    chan_mon_,    \* Channel::mon_
    mon_pools_,   \* Monitor::pools_   (type -> set of pool addresses)
    notes,        \* calls received by the observer during the last Channel call
    held,         \* address -> slots the callers hold (got and not returned)
    ghost,        \* address -> history of the calls made on that pool
    hist,         \* history of the calls made on the Channel
    last,         \* the last operation: its name, pool, argument, result
    thr,          \* thread -> the singleton accessor call it is executing
    mutex         \* the std::mutex objects: the thread holding each, or 0

vars == <<pool, chan_pools_, chan_mon_, mon_pools_, notes, held, ghost, hist,
          last, thr, mutex>>

----------------------------------------------------------------------------
(* Bounds of the model. *)

MaxPools == 2      \* pool addresses
MaxCnt == 4        \* largest block-size hint passed to a constructor
MaxGets == 6       \* get() calls on one pool (single-pool specification)
MaxRets == 3       \* ret() calls on one pool (single-pool specification)
NumThreads == 2    \* threads calling the singleton accessors
MaxShared == 2     \* slots outstanding from the singleton pools

PoolAddrs == 1..MaxPools
Threads == 1..NumThreads
(* The element types T the program instantiates Pool<T> with. *)
Types == {1, 2}
CntArgs == 0..MaxCnt

(* int cnt_ = 128 *)
DefaultCnt == 128

(* nullptr, as an Obj* *)
Null == <<0, 0>>

(* Channel::mon_ values: nullptr, or the Monitor singleton. *)
NoMon == "nullptr"
TheMonitor == "Monitor"

----------------------------------------------------------------------------
(* Pool<T> *)

(* The storage at an address that holds no constructed pool. *)
NoPool ==
    [live |-> FALSE, ty |-> 0, curr_ |-> Null, last_ |-> Null, free_ |-> <<>>,
     blocks_ |-> <<>>, cnt_ |-> 0, total_cnt_ |-> 0, use_cnt_ |-> 0]

(* The member initialisers of Pool<T>. *)
PoolFields(ty) ==
    [live |-> TRUE, ty |-> ty, curr_ |-> Null, last_ |-> Null, free_ |-> <<>>,
     blocks_ |-> <<>>, cnt_ |-> DefaultCnt, total_cnt_ |-> 0, use_cnt_ |-> 0]

(* Mutant of new_block: the block is linked but total_cnt_ is not updated. *)
new_block_no_total(p) ==
    LET id == Len(p.blocks_) + 1
    IN  [p EXCEPT !.blocks_ = <<[id |-> id, n |-> p.cnt_]>> \o p.blocks_,
                  !.curr_ = <<id, 0>>,
                  !.last_ = <<id, p.cnt_>>]

(* Pool::new_block: malloc a block of cnt_ slots, link it at the head of    *)
(* blocks_, point the cursor at its first slot, add cnt_ to total_cnt_.     *)
(* A block is recorded as [id, n]: its identity and the slots it holds.     *)
new_block(p) ==
    LET id == Len(p.blocks_) + 1
    IN  [p EXCEPT !.blocks_ = <<[id |-> id, n |-> p.cnt_]>> \o p.blocks_,
                  !.curr_ = <<id, 0>>,
                  !.last_ = <<id, p.cnt_>>,
                  !.total_cnt_ = p.total_cnt_ + p.cnt_]

(* Mutant of CursorAtEnd: curr_ + 1 >= last_ (one slot is left behind). *)
CursorNearEnd(p) == p.curr_[2] + 1 >= p.last_[2]

(* Mutant of CursorAtEnd: curr_ > last_ . *)
CursorPastEnd(p) == p.curr_[2] > p.last_[2]

(* curr_ >= last_ : both point into the current block, or both are null. *)
CursorAtEnd(p) == p.curr_[2] >= p.last_[2]

(* Pool::Pool(cnt), up to the Channel::created call. *)
PoolCtorBody(ty, cnt) ==
    IF cnt > 0
    THEN new_block([PoolFields(ty) EXCEPT !.cnt_ = cnt])
    ELSE PoolFields(ty)

(* Mutant of get: the bump cursor is not advanced. *)
get_cursor_not_advanced(p) ==
    LET q == [p EXCEPT !.use_cnt_ = p.use_cnt_ + 1]
    IN  IF q.free_ # <<>>
        THEN [pool |-> [q EXCEPT !.free_ = Tail(q.free_)], obj |-> Head(q.free_)]
        ELSE LET r == IF CursorAtEnd(q) THEN new_block(q) ELSE q
             IN  [pool |-> r, obj |-> r.curr_]

(* Mutant of get: the head of the free list is returned but not unlinked. *)
get_free_not_popped(p) ==
    LET q == [p EXCEPT !.use_cnt_ = p.use_cnt_ + 1]
    IN  IF q.free_ # <<>>
        THEN [pool |-> q, obj |-> Head(q.free_)]
        ELSE LET r == IF CursorAtEnd(q) THEN new_block(q) ELSE q
             IN  [pool |-> [r EXCEPT !.curr_ = <<r.curr_[1], r.curr_[2] + 1>>],
                  obj |-> r.curr_]

(* Pool::get: the pool after the call and the slot returned. *)
get(p) ==
    LET q == [p EXCEPT !.use_cnt_ = p.use_cnt_ + 1]
    IN  IF q.free_ # <<>>
        THEN [pool |-> [q EXCEPT !.free_ = Tail(q.free_)], obj |-> Head(q.free_)]
        ELSE LET r == IF CursorAtEnd(q) THEN new_block(q) ELSE q
             IN  [pool |-> [r EXCEPT !.curr_ = <<r.curr_[1], r.curr_[2] + 1>>],
                  obj |-> r.curr_]

(* Mutant of ret: use_cnt_ is not decremented. *)
ret_keeps_use_cnt(p, t) == [p EXCEPT !.free_ = <<t>> \o p.free_]

(* Mutant of ret: the slot is appended at the tail of the free list. *)
ret_at_tail(p, t) ==
    [p EXCEPT !.use_cnt_ = p.use_cnt_ - 1, !.free_ = Append(p.free_, t)]

(* Pool::ret: push the slot on the free list. *)
ret(p, t) ==
    [p EXCEPT !.use_cnt_ = p.use_cnt_ - 1, !.free_ = <<t>> \o p.free_]

(* Pool::total_cnt, Pool::use_cnt *)
total_cnt(p) == p.total_cnt_
use_cnt(p) == p.use_cnt_

----------------------------------------------------------------------------
(* std::unordered_map<std::type_index, std::unordered_set<Pool<void>*>>:    *)
(* a function from the keys present to sets of pool addresses.              *)

EmptyPools == [k \in {} |-> {}]

(* pools_[k], without inserting: the set stored under k, empty if absent. *)
At(m, k) == IF k \in DOMAIN m THEN m[k] ELSE {}

(* pools_[k] = s  (operator[] inserts the key when it is absent). *)
Put(m, k, s) == [x \in DOMAIN m \cup {k} |-> IF x = k THEN s ELSE m[x]]

(* pools_.erase(k) *)
Erase(m, k) == [x \in DOMAIN m \ {k} |-> m[x]]

(* Every (type, pool) pair stored in the map. *)
Pairs(m) == UNION {{<<k, a>> : a \in m[k]} : k \in DOMAIN m}

----------------------------------------------------------------------------
(* IMonitor calls, and the Monitor that receives them. *)

Note(kind, tidx, a) == [kind |-> kind, tidx |-> tidx, pool |-> a]

(* Mutant of Monitor_created: the pool replaces the set of its type. *)
Monitor_created_overwrite(mp, tidx, a) == Put(mp, tidx, {a})

(* Monitor::created: pools_[tidx].insert(pool) *)
Monitor_created(mp, tidx, a) == Put(mp, tidx, At(mp, tidx) \cup {a})

(* Mutant of Monitor_deleted: the type stays when its set becomes empty. *)
Monitor_deleted_keeps_type(mp, tidx, a) == Put(mp, tidx, At(mp, tidx) \ {a})

(* Monitor::deleted: erase the pool; drop the type when its set is empty. *)
Monitor_deleted(mp, tidx, a) ==
    LET poolset == At(mp, tidx) \ {a}
    IN  IF poolset = {} THEN Erase(mp, tidx) ELSE Put(mp, tidx, poolset)

(* The Monitor's pools_ after it has received the calls of ns, in order. *)
RECURSIVE Deliver(_, _)
Deliver(mp, ns) ==
    IF ns = <<>> THEN mp
    ELSE LET n == Head(ns)
         IN  Deliver(IF n.kind = "created"
                     THEN Monitor_created(mp, n.tidx, n.pool)
                     ELSE Monitor_deleted(mp, n.tidx, n.pool),
                     Tail(ns))

----------------------------------------------------------------------------
(* Channel *)

(* The inner loop of pass_all: one created call per pool of the set.  The   *)
(* container's iteration order is taken to be increasing address.           *)
RECURSIVE ReplaySet(_, _)
ReplaySet(tidx, poolset) ==
    IF poolset = {} THEN <<>>
    ELSE LET a == CHOOSE x \in poolset : \A y \in poolset : x <= y
         IN  <<Note("created", tidx, a)>> \o ReplaySet(tidx, poolset \ {a})

(* The outer loop of pass_all over the keys ks of the map. *)
RECURSIVE ReplayMap(_, _)
ReplayMap(cp, ks) ==
    IF ks = {} THEN <<>>
    ELSE LET k == CHOOSE x \in ks : \A y \in ks : x <= y
         IN  ReplaySet(k, cp[k]) \o ReplayMap(cp, ks \ {k})

(* A pass_all without the test of mon_: it replays with no observer. *)
pass_all_without_observer(mon, cp) ==
    IF DOMAIN cp = {} THEN <<>>
    ELSE ReplayMap(cp, DOMAIN cp)

(* Channel::pass_all: the calls it makes on the observer. *)
pass_all(mon, cp) ==
    IF mon = NoMon THEN <<>>
    ELSE IF DOMAIN cp = {} THEN <<>>
    ELSE ReplayMap(cp, DOMAIN cp)

(* History of the Channel, read only by the properties: whether a pool was *)
(* constructed or destroyed while an observer was attached (attachedEvent), *)
(* whether one was destroyed (detachedDelete) or constructed                *)
(* (detachedCreate) while none was, whether the Monitor has received a      *)
(* created call (seen), and the stale identities (stale): an identity is    *)
(* stale from the destruction, with an observer attached, of a pool that    *)
(* was constructed with none attached, until a pool of that type is         *)
(* constructed or destroyed at that address with no observer attached.      *)
NoEvents ==
    [attachedEvent |-> FALSE, detachedDelete |-> FALSE,
     detachedCreate |-> FALSE, seen |-> FALSE, stale |-> {}]

AfterCreated(h, mon) ==
    [h EXCEPT !.attachedEvent = @ \/ mon # NoMon,
              !.detachedCreate = @ \/ mon = NoMon]

AfterStale(h, mon, a, tidx) ==
    IF mon = NoMon THEN [h EXCEPT !.stale = @ \ {<<tidx, a>>}]
    ELSE IF ghost[a].firstMon = NoMon
    THEN [h EXCEPT !.stale = @ \cup {<<tidx, a>>}]
    ELSE h

AfterFresh(h, mon, a, tidx) ==
    IF mon = NoMon THEN [h EXCEPT !.stale = @ \ {<<tidx, a>>}] ELSE h

AfterNotes(h, ns) ==
    [h EXCEPT !.seen = @ \/ \E i \in 1..Len(ns) : ns[i].kind = "created"]

AfterDeleted(h, mon) ==
    [h EXCEPT !.attachedEvent = @ \/ mon # NoMon,
              !.detachedDelete = @ \/ mon = NoMon]

(* Channel::set *)
Channel_set(mon) ==
    /\ chan_mon_' = mon
    /\ notes' = pass_all(mon, chan_pools_)
    /\ mon_pools_' = Deliver(mon_pools_, notes')
    /\ hist' = AfterNotes(hist, notes')
    /\ UNCHANGED chan_pools_

(* Mutant of created_notes: the pool is forwarded, the map is not replayed. *)
created_notes_no_replay(mon, cp, a, tidx) ==
    IF mon # NoMon THEN <<Note("created", tidx, a)>> ELSE <<>>

(* Mutant of created_pools: the pool replaces the set stored for its type. *)
created_pools_overwrite(mon, cp, a, tidx) ==
    IF mon # NoMon THEN cp ELSE Put(cp, tidx, {a})

(* The calls Channel::created makes on the observer, and the map it leaves. *)
created_notes(mon, cp, a, tidx) ==
    IF mon # NoMon
    THEN <<Note("created", tidx, a)>> \o pass_all(mon, cp)
    ELSE <<>>

created_pools(mon, cp, a, tidx) ==
    IF mon # NoMon THEN cp ELSE Put(cp, tidx, At(cp, tidx) \cup {a})

(* Channel::created *)
Channel_created(a, tidx) ==
    /\ notes' = created_notes(chan_mon_, chan_pools_, a, tidx)
    /\ chan_pools_' = created_pools(chan_mon_, chan_pools_, a, tidx)
    /\ mon_pools_' = Deliver(mon_pools_, notes')
    /\ hist' = AfterNotes(AfterFresh(AfterCreated(hist, chan_mon_),
                                      chan_mon_, a, tidx),
                           notes')
    /\ UNCHANGED chan_mon_

(* Mutant of deleted_notes: the pool is forwarded, the map is not replayed. *)
deleted_notes_no_replay(mon, cp, a, tidx) ==
    IF mon # NoMon THEN <<Note("deleted", tidx, a)>> ELSE <<>>

(* Mutant of deleted_pools: the map is never purged. *)
deleted_pools_keep(mon, cp, a, tidx) == cp

(* The calls Channel::deleted makes on the observer, and the map it leaves. *)
deleted_notes(mon, cp, a, tidx) ==
    IF mon # NoMon
    THEN <<Note("deleted", tidx, a)>> \o pass_all(mon, cp)
    ELSE <<>>

deleted_pools(mon, cp, a, tidx) ==
    IF mon # NoMon THEN cp ELSE Put(cp, tidx, At(cp, tidx) \ {a})

(* Channel::deleted *)
Channel_deleted(a, tidx) ==
    /\ notes' = deleted_notes(chan_mon_, chan_pools_, a, tidx)
    /\ chan_pools_' = deleted_pools(chan_mon_, chan_pools_, a, tidx)
    /\ mon_pools_' = Deliver(mon_pools_, notes')
    /\ hist' = AfterNotes(AfterStale(AfterDeleted(hist, chan_mon_),
                                      chan_mon_, a, tidx),
                           notes')
    /\ UNCHANGED chan_mon_

----------------------------------------------------------------------------
(* History kept beside the program state, read only by the properties.     *)

(* Per pool: the get() and ret() calls made, every slot get() ever          *)
(* returned, the current run of consecutive ret() calls (retRun) and the    *)
(* get() calls that directly followed it (getRun), and the call that        *)
(* created the pool, the size hint it passed and the observer then attached. *)
NoHistory ==
    [nget |-> 0, nret |-> 0, issued |-> {}, retRun |-> <<>>, getRun |-> <<>>,
     firstOp |-> "none", firstCnt |-> 0, firstMon |-> NoMon]

Created(h, op, cnt) ==
    [h EXCEPT !.firstOp = op, !.firstCnt = cnt, !.firstMon = chan_mon_]

AfterGet(h, obj) ==
    [h EXCEPT !.nget = h.nget + 1,
              !.issued = h.issued \cup {obj},
              !.getRun = IF Len(h.getRun) < Len(h.retRun)
                         THEN Append(h.getRun, obj) ELSE <<>>,
              !.retRun = IF Len(h.getRun) < Len(h.retRun)
                         THEN h.retRun ELSE <<>>]

AfterRet(h, t) ==
    [h EXCEPT !.nret = h.nret + 1,
              !.retRun = IF h.getRun = <<>> THEN Append(h.retRun, t) ELSE <<t>>,
              !.getRun = <<>>]

(* The last call: op, the pool address a, the slot obj (passed to ret,      *)
(* returned by get), pre, the pool object the call found (for get and ret:  *)
(* the object the member function ran on), cp and mon, the Channel's pools_ *)
(* and mon_ when the call began, had, the slots of the pool the callers     *)
(* held then, and stat, the Stat a Monitor::stat call returned.             *)
Call(op, a, obj, pre) ==
    [op |-> op, a |-> a, obj |-> obj, pre |-> pre,
     cp |-> chan_pools_, mon |-> chan_mon_,
     had |-> IF a \in PoolAddrs THEN held[a] ELSE {},
     stat |-> EmptyPools]

----------------------------------------------------------------------------
(* Construction and destruction of a pool object at address a. *)

(* Pool<T>::Pool(cnt) *)
NewPool(a, ty, cnt) ==
    /\ ~pool[a].live
    /\ pool' = [pool EXCEPT ![a] = PoolCtorBody(ty, cnt)]
    /\ Channel_created(a, ty)
    /\ ghost' = [ghost EXCEPT ![a] = Created(NoHistory, "Pool", cnt)]
    /\ last' = Call("Pool", a, Null, pool[a])
    /\ UNCHANGED <<held, thr, mutex>>

(* Pool<T>::~Pool(): Channel::deleted, then every block is freed. *)
DeletePool(a) ==
    /\ pool[a].live
    /\ Channel_deleted(a, pool[a].ty)
    /\ pool' = [pool EXCEPT ![a] = NoPool]
    /\ held' = [held EXCEPT ![a] = {}]
    /\ ghost' = [ghost EXCEPT ![a] = NoHistory]
    /\ last' = Call("~Pool", a, Null, pool[a])
    /\ UNCHANGED <<thr, mutex>>

(* Channel::inst().set(mon): Monitor::Monitor passes this, ~Monitor nullptr. *)
SetMonitor(mon) ==
    /\ Channel_set(mon)
    /\ last' = Call("set", 0, Null, NoPool)
    /\ UNCHANGED <<pool, held, ghost, thr, mutex>>

----------------------------------------------------------------------------
(* Monitor::stat *)

(* What the two counters read through a pointer to a destroyed pool may     *)
(* give: the freed storage holds zeros, or something else.                  *)
Garbage ==
    {[total_cnt_ |-> 0, use_cnt_ |-> 0], [total_cnt_ |-> 1, use_cnt_ |-> 1]}

(* The Pool<void>* identities the Monitor holds whose pool is destroyed. *)
Dangling(mp) == {a \in UNION {mp[k] : k \in DOMAIN mp} : ~pool[a].live}

(* pool->total_cnt() and pool->use_cnt() through the identity a: the        *)
(* counters of the pool object now at that address, or what the freed       *)
(* storage holds (g).                                                       *)
ReadCounters(a, g) ==
    IF pool[a].live
    THEN [total_cnt_ |-> total_cnt(pool[a]), use_cnt_ |-> use_cnt(pool[a])]
    ELSE g[a]

(* The inner loop of stat over a set of identities: the sums it builds. *)
RECURSIVE SumCounters(_, _)
SumCounters(poolset, g) ==
    IF poolset = {} THEN [total_ |-> 0, use_ |-> 0]
    ELSE LET a == CHOOSE x \in poolset : TRUE
             rest == SumCounters(poolset \ {a}, g)
             c == ReadCounters(a, g)
         IN  [total_ |-> rest.total_ + c.total_cnt_,
              use_ |-> rest.use_ + c.use_cnt_]

(* The Count stat builds for one type. *)
stat_Count(poolset, g) ==
    [total_ |-> SumCounters(poolset, g).total_,
     use_ |-> SumCounters(poolset, g).use_,
     pool_ |-> Cardinality(poolset)]

(* A created or deleted call made directly on the Monitor (IMonitor is a    *)
(* public interface): any type, any identity.                               *)
Monitor_notify(kind, tidx, a) ==
    /\ notes' = <<Note(kind, tidx, a)>>
    /\ mon_pools_' = Deliver(mon_pools_, notes')
    /\ hist' = AfterNotes(hist, notes')
    /\ last' = Call(kind, a, Null, pool[a])
    /\ UNCHANGED <<pool, chan_pools_, chan_mon_, held, ghost, thr, mutex>>

(* Monitor::stat(): the Stat it returns. *)
Monitor_stat ==
    /\ \E g \in [Dangling(mon_pools_) -> Garbage] :
          last' = [Call("stat", 0, Null, NoPool) EXCEPT
                      !.stat = [tidx \in DOMAIN mon_pools_ |->
                                   stat_Count(mon_pools_[tidx], g)]]
    /\ UNCHANGED <<pool, chan_pools_, chan_mon_, mon_pools_, notes, held,
                   ghost, hist, thr, mutex>>

----------------------------------------------------------------------------
(* The tls accessors.  The thread_local Pool<T> of a thread and a type T    *)
(* lives at one address a; it is constructed by the first call that reaches *)
(* its declaration, with the cnt that call passes.                          *)

(* Mutant of get_tls_pool: a positive hint constructs the pool again. *)
get_tls_pool_reinit(a, ty, cnt) ==
    IF pool[a].live /\ cnt <= 0 THEN pool[a] ELSE PoolCtorBody(ty, cnt)

(* get_tls_pool<T>(cnt): the pool object the call returns. *)
get_tls_pool(a, ty, cnt) ==
    IF pool[a].live THEN pool[a] ELSE PoolCtorBody(ty, cnt)

(* The Channel::created call of the constructor, when get_tls_pool runs it. *)
RegisterIfNew(a, ty) ==
    IF pool[a].live
    THEN UNCHANGED <<chan_pools_, chan_mon_, mon_pools_, notes, hist>>
    ELSE Channel_created(a, ty)

(* warm_up_tls_pool<T>(cnt) *)
warm_up_tls_pool(a, ty, cnt) ==
    /\ pool[a].live => pool[a].ty = ty
    /\ pool' = [pool EXCEPT ![a] = get_tls_pool(a, ty, cnt)]
    /\ RegisterIfNew(a, ty)
    /\ ghost' = [ghost EXCEPT ![a] =
                    IF pool[a].live THEN @ ELSE Created(@, "warm_up", cnt)]
    /\ last' = Call("warm_up", a, Null, pool[a])
    /\ UNCHANGED <<held, thr, mutex>>

(* get_tls<T>() *)
get_tls(a, ty) ==
    /\ pool[a].live => pool[a].ty = ty
    /\ LET p == get_tls_pool(a, ty, 0)
           g == get(p)
       IN  /\ pool' = [pool EXCEPT ![a] = g.pool]
           /\ held' = [held EXCEPT ![a] = @ \cup {g.obj}]
           /\ ghost' = [ghost EXCEPT ![a] =
                           AfterGet(IF pool[a].live THEN @ ELSE Created(@, "get", 0),
                                    g.obj)]
           /\ last' = Call("get", a, g.obj, p)
    /\ RegisterIfNew(a, ty)
    /\ UNCHANGED <<thr, mutex>>

(* ret_tls<T>(t), for a slot t the caller got from this pool and holds. *)
ret_tls(a, ty, t) ==
    /\ pool[a].live => pool[a].ty = ty
    /\ t \in held[a]
    /\ LET p == get_tls_pool(a, ty, 0)
       IN  /\ pool' = [pool EXCEPT ![a] = ret(p, t)]
           /\ last' = Call("ret", a, t, p)
    /\ held' = [held EXCEPT ![a] = @ \ {t}]
    /\ ghost' = [ghost EXCEPT ![a] = AfterRet(@, t)]
    /\ RegisterIfNew(a, ty)
    /\ UNCHANGED <<thr, mutex>>

----------------------------------------------------------------------------
(* The singleton accessors, one step per lock operation and per call made   *)
(* under a lock.  The static Pool<T> of type T lives at the address         *)
(* singleton_addr(T); get_singleton_mutex<T>() is the static mutex of T.    *)

singleton_addr(ty) == ty

(* Mutant of get_singleton_mutex: one mutex shared by every type. *)
one_mutex_for_all(ty) == 1

(* get_singleton_mutex<T>(): the index of T's mutex among the type mutexes. *)
get_singleton_mutex(ty) == ty

SharedCnts == {1}

NoMutexHeld == [type |-> [ty \in Types |-> 0], chan |-> 0, mon |-> 0]

(* A thread outside the accessors. *)
Idle == [pc |-> "idle", op |-> "none", ty |-> 0, cnt |-> 0, obj |-> Null]

(* std::mutex::lock returns only when no thread holds the mutex. *)
lock_free(holder) == holder = 0

(* A thread enters warm_up_singleton<T>(cnt), get_singleton<T>() or         *)
(* ret_singleton<T>(t), t being a slot of T's pool that the thread holds.   *)
InFlightGets == {u \in Threads : thr[u].op = "get"}

RECURSIVE SumHeld(_)
SumHeld(as) ==
    IF as = {} THEN 0
    ELSE LET a == CHOOSE x \in as : TRUE
         IN  Cardinality(held[a]) + SumHeld(as \ {a})

SlotsOut ==
    SumHeld(PoolAddrs)
      + Cardinality({u \in Threads : thr[u].op = "ret"})

singleton_call(th) ==
    /\ thr[th].pc = "idle"
    /\ \E ty \in Types :
          \/ \E cnt \in SharedCnts :
                /\ thr' = [thr EXCEPT ![th] =
                       [pc |-> "lock", op |-> "warm_up", ty |-> ty, cnt |-> cnt,
                        obj |-> Null]]
                /\ UNCHANGED held
          \/ /\ SlotsOut + Cardinality(InFlightGets) < MaxShared
             /\ thr' = [thr EXCEPT ![th] =
                    [pc |-> "lock", op |-> "get", ty |-> ty, cnt |-> 0,
                     obj |-> Null]]
             /\ UNCHANGED held
          \/ \E t \in held[singleton_addr(ty)] :
                /\ thr' = [thr EXCEPT ![th] =
                       [pc |-> "lock", op |-> "ret", ty |-> ty, cnt |-> 0,
                        obj |-> t]]
                /\ held' = [held EXCEPT ![singleton_addr(ty)] = @ \ {t}]
    /\ UNCHANGED <<pool, chan_pools_, chan_mon_, mon_pools_, notes, ghost, hist,
                   last, mutex>>

(* std::lock_guard<std::mutex> lock(get_singleton_mutex<T>()) *)
singleton_lock(th) ==
    /\ thr[th].pc = "lock"
    /\ lock_free(mutex.type[get_singleton_mutex(thr[th].ty)])
    /\ mutex' = [mutex EXCEPT !.type[get_singleton_mutex(thr[th].ty)] = th]
    /\ thr' = [thr EXCEPT ![th].pc = "pool"]
    /\ UNCHANGED <<pool, chan_pools_, chan_mon_, mon_pools_, notes, held, ghost,
                   hist, last>>

(* get_singleton_pool<T>(cnt), first call: the function-local static is    *)
(* constructed, which runs the constructor up to its Channel::created call. *)
(* (A later call only returns the reference: see singleton_op.)             *)
get_singleton_pool(th) ==
    /\ thr[th].pc = "pool"
    /\ ~pool[singleton_addr(thr[th].ty)].live
    /\ pool' = [pool EXCEPT ![singleton_addr(thr[th].ty)] =
                   PoolCtorBody(thr[th].ty, thr[th].cnt)]
    /\ ghost' = [ghost EXCEPT ![singleton_addr(thr[th].ty)] =
                    Created(NoHistory, "get_singleton_pool", thr[th].cnt)]
    /\ thr' = [thr EXCEPT ![th].pc = "created_lock"]
    /\ UNCHANGED <<chan_pools_, chan_mon_, mon_pools_, notes, held, hist, last,
                   mutex>>

(* Channel::created: std::lock_guard<std::mutex> lock(mutex_) *)
created_lock(th) ==
    /\ thr[th].pc = "created_lock"
    /\ lock_free(mutex.chan)
    /\ mutex' = [mutex EXCEPT !.chan = th]
    /\ thr' = [thr EXCEPT ![th].pc = "created"]
    /\ UNCHANGED <<pool, chan_pools_, chan_mon_, mon_pools_, notes, held, ghost,
                   hist, last>>

(* Channel::created: the body under the lock (Monitor::created takes the    *)
(* Monitor's mutex for each call it receives), and the release of the lock. *)
created_body(th) ==
    /\ thr[th].pc = "created"
    /\ chan_mon_ # NoMon => lock_free(mutex.mon)
    /\ Channel_created(singleton_addr(thr[th].ty), thr[th].ty)
    /\ mutex' = [mutex EXCEPT !.chan = 0]
    /\ thr' = [thr EXCEPT ![th].pc = "op"]
    /\ UNCHANGED <<pool, held, ghost, last>>

(* The rest of the accessor, run under the type's mutex once the pool is    *)
(* constructed: get_singleton_pool<T>().get(), get_singleton_pool<T>().ret(t)*)
(* or nothing more (warm_up_singleton), then ~lock_guard releases the mutex *)
(* and the call returns.                                                    *)
singleton_op(th) ==
    /\ \/ thr[th].pc = "op"
       \/ thr[th].pc = "pool" /\ pool[singleton_addr(thr[th].ty)].live
    /\ LET a == singleton_addr(thr[th].ty)
           g == get(pool[a])
       IN  CASE thr[th].op = "get" ->
                  /\ pool' = [pool EXCEPT ![a] = g.pool]
                  /\ held' = [held EXCEPT ![a] = @ \cup {g.obj}]
             [] thr[th].op = "ret" ->
                  /\ pool' = [pool EXCEPT ![a] = ret(pool[a], thr[th].obj)]
                  /\ UNCHANGED held
             [] OTHER -> UNCHANGED <<pool, held>>
    /\ mutex' = [mutex EXCEPT !.type[get_singleton_mutex(thr[th].ty)] = 0]
    /\ thr' = [thr EXCEPT ![th] = Idle]
    /\ UNCHANGED <<chan_pools_, chan_mon_, mon_pools_, notes, ghost, hist, last>>

----------------------------------------------------------------------------
(* Monitor::stat, Channel::set and a pool of automatic storage, called by   *)
(* threads: one step per lock operation and per body run under a lock.      *)

Begin(op, ty) == [pc |-> op, op |-> op, ty |-> ty, cnt |-> 0, obj |-> Null]

(* Mutant of stat_unlock: stat() returns without releasing the mutex. *)
stat_keeps_lock(m) == m

(* ~lock_guard at the end of Monitor::stat *)
stat_unlock(m) == [m EXCEPT !.mon = 0]

(* A thread enters Monitor::stat() on the attached Monitor. *)
stat_call(th) ==
    /\ thr[th].pc = "idle"
    /\ chan_mon_ = TheMonitor
    /\ thr' = [thr EXCEPT ![th] = Begin("stat", 0)]
    /\ UNCHANGED <<pool, chan_pools_, chan_mon_, mon_pools_, notes, held, ghost,
                   hist, last, mutex>>

(* Monitor::stat: std::lock_guard<std::mutex> lock(mutex_) *)
stat_lock(th) ==
    /\ thr[th].pc = "stat"
    /\ lock_free(mutex.mon)
    /\ mutex' = [mutex EXCEPT !.mon = th]
    /\ thr' = [thr EXCEPT ![th].pc = "stat_read"]
    /\ UNCHANGED <<pool, chan_pools_, chan_mon_, mon_pools_, notes, held, ghost,
                   hist, last>>

(* The pools whose counters the stat() call of thread th reads. *)
StatReads(th) ==
    IF thr[th].pc = "stat_read"
    THEN UNION {mon_pools_[k] : k \in DOMAIN mon_pools_}
    ELSE {}

(* Monitor::stat: the loops that read total_cnt() and use_cnt() of every    *)
(* pool the Monitor holds, and the return.                                  *)
stat_read(th) ==
    /\ thr[th].pc = "stat_read"
    /\ mutex' = stat_unlock(mutex)
    /\ thr' = [thr EXCEPT ![th] = Idle]
    /\ UNCHANGED <<pool, chan_pools_, chan_mon_, mon_pools_, notes, held, ghost,
                   hist, last>>

(* A thread enters Channel::set: from Monitor::Monitor (op "attach", the    *)
(* argument is the Monitor) or from ~Monitor (op "detach", nullptr).        *)
set_call(th) ==
    /\ thr[th].pc = "idle"
    /\ \E op \in {"attach", "detach"} : thr' = [thr EXCEPT ![th] = Begin(op, 0)]
    /\ UNCHANGED <<pool, chan_pools_, chan_mon_, mon_pools_, notes, held, ghost,
                   hist, last, mutex>>

(* Channel::set: std::lock_guard<std::mutex> lock(mutex_) *)
set_lock(th) ==
    /\ thr[th].pc \in {"attach", "detach"}
    /\ lock_free(mutex.chan)
    /\ mutex' = [mutex EXCEPT !.chan = th]
    /\ thr' = [thr EXCEPT ![th].pc = "set"]
    /\ UNCHANGED <<pool, chan_pools_, chan_mon_, mon_pools_, notes, held, ghost,
                   hist, last>>

(* Channel::set: the body under the lock (the Monitor::created calls of     *)
(* pass_all take the Monitor's mutex), and the release of the lock.         *)
set_body(th) ==
    /\ thr[th].pc = "set"
    /\ LET mon == IF thr[th].op = "attach" THEN TheMonitor ELSE NoMon
       IN  /\ pass_all(mon, chan_pools_) # <<>> => lock_free(mutex.mon)
           /\ Channel_set(mon)
    /\ mutex' = [mutex EXCEPT !.chan = 0]
    /\ thr' = [thr EXCEPT ![th] = Idle]
    /\ UNCHANGED <<pool, held, ghost, last>>

(* The pool of automatic storage: a thread constructs it and destroys it    *)
(* at the end of the scope.                                                 *)
LocalPool == [a |-> 2, ty |-> 2]

(* Pool<T>::Pool(cnt), up to the Channel::created call. *)
local_ctor(th) ==
    /\ thr[th].pc = "idle"
    /\ ~pool[LocalPool.a].live
    /\ \E cnt \in SharedCnts :
          /\ pool' = [pool EXCEPT ![LocalPool.a] = PoolCtorBody(LocalPool.ty, cnt)]
          /\ ghost' = [ghost EXCEPT ![LocalPool.a] = Created(NoHistory, "Pool", cnt)]
    /\ thr' = [thr EXCEPT ![th] = Begin("local_created_lock", LocalPool.ty)]
    /\ UNCHANGED <<chan_pools_, chan_mon_, mon_pools_, notes, held, hist, last,
                   mutex>>

(* Channel::created / Channel::deleted: std::lock_guard lock(mutex_) *)
local_lock(th) ==
    /\ thr[th].pc \in {"local_created_lock", "local_deleted_lock"}
    /\ lock_free(mutex.chan)
    /\ mutex' = [mutex EXCEPT !.chan = th]
    /\ thr' = [thr EXCEPT ![th].pc =
                  IF thr[th].pc = "local_created_lock"
                  THEN "local_created" ELSE "local_deleted"]
    /\ UNCHANGED <<pool, chan_pools_, chan_mon_, mon_pools_, notes, held, ghost,
                   hist, last>>

(* Channel::created: the body under the lock, and the release of the lock;  *)
(* the constructor returns, and the destructor starts at the scope's end.   *)
local_created(th) ==
    /\ thr[th].pc = "local_created"
    /\ chan_mon_ # NoMon => lock_free(mutex.mon)
    /\ Channel_created(LocalPool.a, LocalPool.ty)
    /\ mutex' = [mutex EXCEPT !.chan = 0]
    /\ thr' = [thr EXCEPT ![th].pc = "local_deleted_lock"]
    /\ UNCHANGED <<pool, held, ghost, last>>

(* Channel::deleted: the body under the lock, the release of the lock, and  *)
(* the rest of ~Pool, which frees the blocks.                               *)
local_deleted(th) ==
    /\ thr[th].pc = "local_deleted"
    /\ chan_mon_ # NoMon => lock_free(mutex.mon)
    /\ Channel_deleted(LocalPool.a, LocalPool.ty)
    /\ pool' = [pool EXCEPT ![LocalPool.a] = NoPool]
    /\ ghost' = [ghost EXCEPT ![LocalPool.a] = NoHistory]
    /\ mutex' = [mutex EXCEPT !.chan = 0]
    /\ thr' = [thr EXCEPT ![th] = Idle]
    /\ UNCHANGED <<held, last>>

----------------------------------------------------------------------------
(* The program at start: no pool constructed, no observer attached. *)
Init ==
    /\ pool = [a \in PoolAddrs |-> NoPool]
    /\ chan_pools_ = EmptyPools
    /\ chan_mon_ = NoMon
    /\ mon_pools_ = EmptyPools
    /\ notes = <<>>
    /\ held = [a \in PoolAddrs |-> {}]
    /\ ghost = [a \in PoolAddrs |-> NoHistory]
    /\ hist = NoEvents
    /\ last = Call("none", 0, Null, NoPool)
    /\ thr = [th \in Threads |-> Idle]
    /\ mutex = NoMutexHeld

(* One thread using the tls pool of one type: warm-up, get and ret in any   *)
(* order, every ret returning a slot the thread holds.  Beyond MaxGets and  *)
(* MaxRets calls the thread goes on only along the scenario: a pool of      *)
(* block size n = MaxCnt serves 2n get(), then n ret(), then n get().       *)
TlsPool == [a |-> 1, ty |-> 1]

ScenarioGet(a) ==
    /\ pool[a].live
    /\ pool[a].cnt_ = MaxCnt
    /\ \/ ghost[a].nret = 0 /\ ghost[a].nget < 2 * MaxCnt
       \/ ghost[a].nret = MaxCnt /\ ghost[a].nget < 3 * MaxCnt

ScenarioRet(a) ==
    /\ pool[a].live
    /\ pool[a].cnt_ = MaxCnt
    /\ ghost[a].nget = 2 * MaxCnt
    /\ ghost[a].nret < MaxCnt

MayGet(a) == ghost[a].nget < MaxGets \/ ScenarioGet(a)
MayRet(a) == ghost[a].nret < MaxRets \/ ScenarioRet(a)

PoolNext ==
    \/ \E cnt \in CntArgs : warm_up_tls_pool(TlsPool.a, TlsPool.ty, cnt)
    \/ MayGet(TlsPool.a) /\ get_tls(TlsPool.a, TlsPool.ty)
    \/ /\ MayRet(TlsPool.a)
       /\ \E t \in held[TlsPool.a] : ret_tls(TlsPool.a, TlsPool.ty, t)

SpecPool == Init /\ [][PoolNext]_vars

----------------------------------------------------------------------------
(* The registry: pools of any type are constructed and destroyed at the     *)
(* addresses of PoolAddrs (an address is free again once its pool is        *)
(* destroyed) and the observer is attached and detached, in any order.      *)
RegCnts == {2}

RegNext ==
    \/ \E a \in PoolAddrs, ty \in Types, cnt \in RegCnts : NewPool(a, ty, cnt)
    \/ \E a \in PoolAddrs : DeletePool(a)
    \/ \E mon \in {NoMon, TheMonitor} : SetMonitor(mon)
    \/ chan_mon_ = TheMonitor /\ Monitor_stat

SpecReg == Init /\ [][RegNext]_vars

----------------------------------------------------------------------------
(* The Monitor alone: it receives created and deleted calls for any type    *)
(* and identity in any order, and stat() is called at any time.             *)
MonNext ==
    \/ \E tidx \in Types, a \in PoolAddrs : Monitor_notify("created", tidx, a)
    \/ \E tidx \in Types, a \in PoolAddrs : Monitor_notify("deleted", tidx, a)
    \/ Monitor_stat

SpecMon == Init /\ [][MonNext]_vars

----------------------------------------------------------------------------
(* Threads calling the singleton accessors of the element types, in any     *)
(* interleaving of their steps.                                             *)
SharedNext ==
    \E th \in Threads :
        \/ singleton_call(th)
        \/ singleton_lock(th)
        \/ get_singleton_pool(th)
        \/ created_lock(th)
        \/ created_body(th)
        \/ singleton_op(th)

SpecShared == Init /\ [][SharedNext]_vars

----------------------------------------------------------------------------
(* The main thread calls Monitor::stat and Channel::set and constructs and  *)
(* destroys a pool of automatic storage, while a worker thread calls the    *)
(* singleton accessors of another type, in any interleaving of their steps. *)
MainThread == 1
WorkerThread == 2

WorkerStep(th) ==
    \/ singleton_call(th) /\ singleton_addr(thr'[th].ty) # LocalPool.a
    \/ singleton_lock(th)
    \/ get_singleton_pool(th)
    \/ created_lock(th)
    \/ created_body(th)
    \/ singleton_op(th)

MainStep(th) ==
    \/ stat_call(th)
    \/ stat_lock(th)
    \/ stat_read(th)
    \/ set_call(th)
    \/ set_lock(th)
    \/ set_body(th)
    \/ local_ctor(th)
    \/ local_lock(th)
    \/ local_created(th)
    \/ local_deleted(th)

LocksNext ==
    \/ MainStep(MainThread)
    \/ WorkerStep(WorkerThread)

SpecLocks == Init /\ [][LocksNext]_vars

(* Fair scheduling: a thread inside an operation whose next step is         *)
(* possible again and again eventually takes it (a thread waiting for a     *)
(* mutex that keeps being released eventually gets it).  No thread is       *)
(* obliged to start an operation.                                           *)
WorkerProgress(th) ==
    \/ singleton_lock(th)
    \/ get_singleton_pool(th)
    \/ created_lock(th)
    \/ created_body(th)
    \/ singleton_op(th)

MainProgress(th) ==
    \/ stat_lock(th)
    \/ stat_read(th)
    \/ set_lock(th)
    \/ set_body(th)
    \/ local_lock(th)
    \/ local_created(th)
    \/ local_deleted(th)

SpecLocksFair ==
    /\ SpecLocks
    /\ SF_vars(MainProgress(MainThread))
    /\ SF_vars(WorkerProgress(WorkerThread))

----------------------------------------------------------------------------
(* Properties of one pool under valid use (SpecPool). *)

LivePools == {a \in PoolAddrs : pool[a].live}

(* C2: after N get() and M ret() calls on a pool, every ret() returning a   *)
(* slot then outstanding, use_cnt() is N - M and exactly N - M distinct     *)
(* slots are outstanding.                                                   *)
C2_UseCntIsGetsMinusRets ==
    \A a \in LivePools :
        /\ use_cnt(pool[a]) = ghost[a].nget - ghost[a].nret
        /\ Cardinality(held[a]) = ghost[a].nget - ghost[a].nret

C2_Witness ==
    \E a \in LivePools :
        /\ ghost[a].nget = 5
        /\ ghost[a].nret = 3
        /\ use_cnt(pool[a]) = 2
        /\ Len(pool[a].blocks_) = 2

(* C3: the distinct slots get() ever returned never outnumber total_cnt(),  *)
(* no call makes total_cnt() smaller, and total_cnt() is cnt_ times the     *)
(* number of blocks in the block list.                                      *)
C3_TotalCntBoundsSlots ==
    \A a \in LivePools :
        /\ Cardinality(ghost[a].issued) <= total_cnt(pool[a])
        /\ total_cnt(pool[a]) = pool[a].cnt_ * Len(pool[a].blocks_)
        /\ (last.a = a /\ last.pre.live) =>
               total_cnt(pool[a]) >= total_cnt(last.pre)

C3_Witness ==
    \E a \in LivePools :
        /\ pool[a].cnt_ = 2
        /\ Len(pool[a].blocks_) = 3
        /\ Cardinality(ghost[a].issued) = 5
        /\ total_cnt(pool[a]) = 6
        /\ last.op = "get" /\ total_cnt(last.pre) = 4

(* C4: k get() calls that directly follow k consecutive ret() calls return  *)
(* the released slots in reverse order of release, and none of them         *)
(* allocates a block or moves the bump cursor.                              *)
C4_FreeListIsLifo ==
    \A a \in LivePools :
        LET k == Len(ghost[a].getRun)
            n == Len(ghost[a].retRun)
        IN  k >= 1 =>
              /\ k <= n
              /\ \A i \in 1..k : ghost[a].getRun[i] = ghost[a].retRun[n + 1 - i]
              /\ (last.op = "get" /\ last.a = a) =>
                    /\ pool[a].curr_ = last.pre.curr_
                    /\ pool[a].last_ = last.pre.last_
                    /\ pool[a].blocks_ = last.pre.blocks_
                    /\ pool[a].total_cnt_ = last.pre.total_cnt_

C4_Witness ==
    \E a \in LivePools :
        /\ Len(ghost[a].retRun) = 4
        /\ Len(ghost[a].getRun) = 4
        /\ ghost[a].retRun[1] # ghost[a].retRun[4]
        /\ last.op = "get" /\ last.obj = ghost[a].retRun[1]

(* C7: get() allocates a block exactly when the free list is empty and the  *)
(* cursor stands at the end of the current block (or there is no block);    *)
(* otherwise it serves the head of the free list, else the slot at the      *)
(* cursor, and leaves total_cnt alone.  So a pool of block size n that has  *)
(* served 2n get() and no ret() has 2 blocks, total_cnt 2n and use_cnt 2n,  *)
(* and after n ret() calls use_cnt n and total_cnt 2n (the claim's n is 4). *)
C7_GetGrowsOnlyWhenExhausted ==
    /\ last.op = "get" =>
         LET pre == last.pre
             post == pool[last.a]
             grew == Len(post.blocks_) = Len(pre.blocks_) + 1
             atEnd == \/ pre.blocks_ = <<>>
                      \/ pre.curr_ = <<Head(pre.blocks_).id, Head(pre.blocks_).n>>
         IN  /\ grew <=> (pre.free_ = <<>> /\ atEnd)
             /\ ~grew => /\ post.blocks_ = pre.blocks_
                         /\ post.total_cnt_ = pre.total_cnt_
             /\ grew => post.total_cnt_ = pre.total_cnt_ + pre.cnt_
             /\ pre.free_ # <<>> =>
                    /\ last.obj = Head(pre.free_)
                    /\ post.free_ = Tail(pre.free_)
                    /\ post.curr_ = pre.curr_
             /\ (pre.free_ = <<>> /\ ~atEnd) =>
                    /\ last.obj = pre.curr_
                    /\ post.curr_ = <<pre.curr_[1], pre.curr_[2] + 1>>
             /\ (pre.free_ = <<>> /\ atEnd) =>
                    /\ last.obj = <<Len(post.blocks_), 0>>
                    /\ post.curr_ = <<Len(post.blocks_), 1>>
    /\ \A a \in LivePools :
         LET n == pool[a].cnt_
             h == ghost[a]
         IN  /\ (h.nget = 2 * n /\ h.nret = 0) =>
                    /\ Len(pool[a].blocks_) = 2
                    /\ total_cnt(pool[a]) = 2 * n
                    /\ use_cnt(pool[a]) = 2 * n
             /\ (/\ h.nget = 2 * n /\ h.nret = n
                 /\ Len(h.retRun) = n /\ h.getRun = <<>>) =>
                    /\ use_cnt(pool[a]) = n
                    /\ total_cnt(pool[a]) = 2 * n

C7_Witness ==
    \E a \in LivePools :
        /\ pool[a].cnt_ = 4
        /\ ghost[a].nget = 8 /\ ghost[a].nret = 4
        /\ Len(ghost[a].retRun) = 4 /\ ghost[a].getRun = <<>>
        /\ Len(pool[a].blocks_) = 2
        /\ total_cnt(pool[a]) = 8
        /\ use_cnt(pool[a]) = 4

(* C9: the first access fixes the block size.  A pool created by a warm-up  *)
(* with n > 0 has blocks of n slots only, and total_cnt n and use_cnt 0     *)
(* until its first get(); a warm-up on a pool that exists changes nothing;  *)
(* a pool created without a positive hint has block size 128 and total_cnt  *)
(* 0 until its first get().                                                 *)
C9_FirstAccessFixesBlockSize ==
    /\ \A a \in LivePools :
         LET h == ghost[a]
             n == IF h.firstCnt > 0 THEN h.firstCnt ELSE 128
         IN  /\ pool[a].cnt_ = n
             /\ \A i \in 1..Len(pool[a].blocks_) : pool[a].blocks_[i].n = n
             /\ h.nget = 0 =>
                    /\ use_cnt(pool[a]) = 0
                    /\ total_cnt(pool[a]) = IF h.firstCnt > 0 THEN n ELSE 0
    /\ (last.op = "warm_up" /\ last.pre.live) => pool[last.a] = last.pre

C9_Witness ==
    \E a \in LivePools :
        /\ ghost[a].firstOp = "warm_up" /\ ghost[a].firstCnt = 3
        /\ Len(pool[a].blocks_) = 2
        /\ last.op = "warm_up" /\ last.pre.live

(* The slots of the blocks a pool owns, the slots on its free list, and    *)
(* the slots of the current block at or beyond the bump cursor.             *)
Slots(p) ==
    UNION {{<<p.blocks_[i].id, k>> : k \in 0..(p.blocks_[i].n - 1)} :
              i \in 1..Len(p.blocks_)}

FreeSlots(p) == {p.free_[i] : i \in 1..Len(p.free_)}

NeverIssued(p) == {<<p.curr_[1], k>> : k \in p.curr_[2]..(p.last_[2] - 1)}

(* C13, as claimed: every slot of every block is on the free list or in     *)
(* use, never both and never neither.                                       *)
C13_SlotFreeOrInUse ==
    \A a \in LivePools : \A sl \in Slots(pool[a]) :
        (sl \in FreeSlots(pool[a])) # (sl \in held[a])

(* C13, amended: every slot of every block is exactly one of: on the free   *)
(* list (once), in use, or never issued (at or beyond the bump cursor of    *)
(* the newest block); the slots get() has issued are the first two kinds.   *)
C13_SlotFreeInUseOrNeverIssued ==
    \A a \in LivePools :
        LET p == pool[a]
        IN  /\ \A sl \in Slots(p) :
                  \/ sl \in FreeSlots(p) /\ sl \notin held[a] /\ sl \notin NeverIssued(p)
                  \/ sl \notin FreeSlots(p) /\ sl \in held[a] /\ sl \notin NeverIssued(p)
                  \/ sl \notin FreeSlots(p) /\ sl \notin held[a] /\ sl \in NeverIssued(p)
            /\ FreeSlots(p) \cup held[a] \cup NeverIssued(p) = Slots(p)
            /\ FreeSlots(p) \cup held[a] = ghost[a].issued
            /\ Cardinality(FreeSlots(p)) = Len(p.free_)
            /\ p.blocks_ # <<>> => p.curr_[1] = Head(p.blocks_).id

(* Two blocks; a slot of the first block and one of the second on the free  *)
(* list, slots in use, and slots of the second block never issued.          *)
C13_Witness ==
    \E a \in LivePools :
        LET p == pool[a]
        IN  /\ Len(p.blocks_) = 2
            /\ \E s1, s2 \in FreeSlots(p) : s1[1] = 1 /\ s2[1] = 2
            /\ Cardinality(held[a]) >= 2
            /\ NeverIssued(p) # {}

(* C17: the slot a get() returns is not null and not one of the slots then *)
(* outstanding, whether it comes from the free list, the cursor or a new    *)
(* block; so the outstanding slots are pairwise distinct, as many as        *)
(* use_cnt().                                                               *)
C17_GetReturnsFreshSlot ==
    /\ last.op = "get" =>
          /\ last.obj # Null
          /\ last.obj \notin last.had
          /\ held[last.a] = last.had \cup {last.obj}
          /\ Cardinality(held[last.a]) = Cardinality(last.had) + 1
    /\ \A a \in LivePools : Cardinality(held[a]) = use_cnt(pool[a])

(* A get() that grew the pool by a second block while three slots were      *)
(* outstanding and one had been returned and reissued.                      *)
C17_Witness ==
    /\ last.op = "get"
    /\ Len(last.pre.blocks_) = 1 /\ Len(pool[last.a].blocks_) = 2
    /\ Cardinality(last.had) = 3
    /\ ghost[last.a].nret >= 1
    /\ last.obj = <<2, 0>>

(* C18: slot conservation.  use_cnt plus the length of the free list plus  *)
(* the never-issued slots between the cursor and the end of the current     *)
(* block is total_cnt; so use_cnt <= total_cnt; and a get() that allocates  *)
(* a block leaves no never-issued slot behind in the block before.          *)
C18_SlotConservation ==
    /\ \A a \in LivePools :
          LET p == pool[a]
          IN  /\ use_cnt(p) + Len(p.free_) + (p.last_[2] - p.curr_[2])
                    = total_cnt(p)
              /\ use_cnt(p) <= total_cnt(p)
              /\ p.curr_[2] <= p.last_[2]
    /\ (last.op = "get" /\ Len(pool[last.a].blocks_) > Len(last.pre.blocks_)) =>
          last.pre.curr_[2] = last.pre.last_[2]

(* A pool with two blocks that has slots in use, slots on the free list and *)
(* never-issued slots left in its second block.                             *)
C18_Witness ==
    \E a \in LivePools :
        /\ Len(pool[a].blocks_) = 2
        /\ use_cnt(pool[a]) = 3
        /\ Len(pool[a].free_) = 2
        /\ pool[a].last_[2] - pool[a].curr_[2] = 1
        /\ total_cnt(pool[a]) = 6

----------------------------------------------------------------------------
(* Properties of the registry (SpecReg). *)

(* The pool_ field of every Count that Monitor::stat returns. *)
stat_pool_(mp) == [tidx \in DOMAIN mp |-> Cardinality(mp[tidx])]

LiveOfType(tidx) == {a \in LivePools : pool[a].ty = tidx}

(* How many of the calls of ns are the call n. *)
Times(ns, n) == Cardinality({i \in 1..Len(ns) : ns[i] = n})

(* C1: once the destructor's Channel::deleted call has returned, with the   *)
(* Monitor attached, the destroyed pool is in none of the Monitor's sets,   *)
(* and stat() has no entry for its type if no pool of that type is live.    *)
C1_DestroyedPoolNotReported ==
    (last.op = "~Pool" /\ last.mon = TheMonitor) =>
        /\ last.a \notin At(mon_pools_, last.pre.ty)
        /\ LiveOfType(last.pre.ty) = {} =>
               last.pre.ty \notin DOMAIN stat_pool_(mon_pools_)

(* C5: when every construction and destruction so far happened with no      *)
(* observer attached, the set(observer) call delivers exactly one created   *)
(* call for each live pool and no other call.                               *)
C5_AttachReplaysLivePools ==
    (last.op = "set" /\ chan_mon_ # NoMon /\ ~hist.attachedEvent) =>
        /\ \A a \in LivePools : Times(notes, Note("created", pool[a].ty, a)) = 1
        /\ \A i \in 1..Len(notes) :
              /\ notes[i].kind = "created"
              /\ notes[i].pool \in LiveOfType(notes[i].tidx)

C5_Witness ==
    /\ last.op = "set" /\ chan_mon_ # NoMon /\ last.mon = NoMon
    /\ ~hist.attachedEvent /\ hist.detachedDelete
    /\ Len(notes) = 2

(* C6: a pool constructed while an observer is attached is announced by one *)
(* created call, followed in the same Channel::created call by one created  *)
(* call per pool held in the Channel's map; the map itself is not changed.  *)
C6_AttachedCreateForwardsThenReplays ==
    (last.op = "Pool" /\ last.mon # NoMon) =>
        /\ notes # <<>>
        /\ notes[1] = Note("created", pool[last.a].ty, last.a)
        /\ Len(notes) = 1 + Cardinality(Pairs(last.cp))
        /\ \A pr \in Pairs(last.cp) :
              Times(Tail(notes), Note("created", pr[1], pr[2])) = 1
        /\ chan_pools_ = last.cp
        /\ chan_mon_ = last.mon

C6_Witness ==
    /\ last.op = "Pool" /\ last.mon # NoMon
    /\ Len(notes) = 3
    /\ last.a \notin At(chan_pools_, pool[last.a].ty)

(* C14: with an observer attached Channel::deleted forwards exactly one     *)
(* deleted call for the destroyed pool, then one created call for every     *)
(* identity in the map, and leaves the map as it was; with none attached it *)
(* removes the identity from the map and makes no call.  With an observer   *)
(* attached neither created nor deleted changes the map.                    *)
C14_DeletedMirrorsCreated ==
    /\ (last.op = "~Pool" /\ last.mon # NoMon) =>
          /\ notes # <<>>
          /\ notes[1] = Note("deleted", last.pre.ty, last.a)
          /\ \A i \in 2..Len(notes) : notes[i].kind = "created"
          /\ Len(notes) = 1 + Cardinality(Pairs(last.cp))
          /\ \A pr \in Pairs(last.cp) :
                Times(notes, Note("created", pr[1], pr[2])) = 1
          /\ chan_pools_ = last.cp
    /\ (last.op = "~Pool" /\ last.mon = NoMon) =>
          /\ notes = <<>>
          /\ Pairs(chan_pools_) = Pairs(last.cp) \ {<<last.pre.ty, last.a>>}
    /\ (last.op \in {"Pool", "~Pool"} /\ last.mon # NoMon) =>
          chan_pools_ = last.cp

(* A pool that the map holds is destroyed with the observer attached: the   *)
(* replay that follows the deleted call announces it again, with another.   *)
C14_Witness ==
    /\ last.op = "~Pool" /\ last.mon # NoMon
    /\ Len(notes) = 3
    /\ last.a \in At(chan_pools_, last.pre.ty)
    /\ notes[2].pool = last.a \/ notes[3].pool = last.a

(* C19: when no pool has been constructed or destroyed while no observer    *)
(* was attached (the Monitor was attached before the first pool and was     *)
(* attached at every construction and destruction since), the Channel's map *)
(* is empty, a construction makes exactly one created call and a            *)
(* destruction exactly one deleted call, and the Monitor's sets are the     *)
(* live pools by type.                                                      *)
C19_AttachedFirstTracksLivePools ==
    (~hist.detachedCreate /\ ~hist.detachedDelete) =>
        /\ chan_pools_ = EmptyPools
        /\ last.op = "Pool" => notes = <<Note("created", pool[last.a].ty, last.a)>>
        /\ last.op = "~Pool" => notes = <<Note("deleted", last.pre.ty, last.a)>>
        /\ last.op = "set" => notes = <<>>
        /\ \A tidx \in Types : At(mon_pools_, tidx) = LiveOfType(tidx)
        /\ DOMAIN mon_pools_ = {pool[a].ty : a \in LivePools}

(* The Monitor was attached first; a pool has just been destroyed and       *)
(* another pool of its type is live.                                        *)
C19_Witness ==
    /\ ~hist.detachedCreate /\ ~hist.detachedDelete
    /\ chan_mon_ = TheMonitor
    /\ last.op = "~Pool" /\ last.mon = TheMonitor
    /\ \E tidx \in Types :
          /\ Cardinality(LiveOfType(tidx)) = 1
          /\ last.pre.ty = tidx
          /\ At(mon_pools_, tidx) = LiveOfType(tidx)

(* The identities of the live pools constructed while no observer was      *)
(* attached, and the created calls of the last operation.                   *)
LiveDetached == {<<pool[a].ty, a>> : a \in {x \in LivePools : ghost[x].firstMon = NoMon}}

LiveAttached == {a \in LivePools : ghost[a].firstMon # NoMon}

Announced == {<<notes[i].tidx, notes[i].pool>> : i \in {j \in DOMAIN notes : notes[j].kind = "created"}}

(* The buffered map as the fold of the constructions and destructions made  *)
(* while no observer was attached: it holds the live pools constructed      *)
(* then and the stale identities, and nothing else.                         *)
MapIsDetachedEvents ==
    /\ Pairs(chan_pools_) = LiveDetached \cup hist.stale
    /\ LiveDetached \cap hist.stale = {}

(* Channel::set(nullptr) makes no call and leaves the map as it was; no     *)
(* Channel::set changes the map.                                            *)
SetKeepsMap ==
    /\ (last.op = "set" /\ chan_mon_ = NoMon) => notes = <<>>
    /\ last.op = "set" => chan_pools_ = last.cp

(* C20, as claimed: the buffered map is the constructions minus the         *)
(* destructions made while no observer was attached, the replay of          *)
(* Channel::set(observer) announces no live pool that was constructed while *)
(* an observer was attached, and Channel::set(nullptr) makes no call and    *)
(* leaves the map unchanged.                                                *)
C20_ReplayOmitsAttachedPools ==
    /\ MapIsDetachedEvents
    /\ (last.op = "set" /\ chan_mon_ # NoMon) =>
          \A a \in LiveAttached : <<pool[a].ty, a>> \notin Announced
    /\ SetKeepsMap

(* C20, amended: the buffered map is the constructions minus the            *)
(* destructions made while no observer was attached, so it holds the live   *)
(* pools constructed then and the stale identities; the replay of           *)
(* Channel::set(observer) makes exactly one created call for each identity  *)
(* in the map and no other call, so it announces a live pool constructed    *)
(* while an observer was attached exactly when that pool stands at a stale  *)
(* identity; Channel::set(nullptr) makes no call, and no Channel::set       *)
(* changes the map.                                                         *)
C20_ReplayIsBufferedMap ==
    /\ MapIsDetachedEvents
    /\ (last.op = "set" /\ chan_mon_ # NoMon) =>
          /\ Announced = Pairs(chan_pools_)
          /\ Len(notes) = Cardinality(Pairs(chan_pools_))
          /\ \A a \in LiveAttached :
                <<pool[a].ty, a>> \in Announced <=> <<pool[a].ty, a>> \in hist.stale
    /\ SetKeepsMap

(* An observer has just been attached: its replay announced a live pool     *)
(* constructed while none was attached and omitted a live pool constructed  *)
(* while an earlier one was.                                                *)
C20_Witness ==
    /\ last.op = "set" /\ chan_mon_ = TheMonitor
    /\ \E a \in LiveAttached : <<pool[a].ty, a>> \notin Announced
    /\ \E a \in LivePools :
          ghost[a].firstMon = NoMon /\ <<pool[a].ty, a>> \in Announced

RECURSIVE TotalOf(_)
TotalOf(poolset) ==
    IF poolset = {} THEN 0
    ELSE LET a == CHOOSE x \in poolset : TRUE
         IN  total_cnt(pool[a]) + TotalOf(poolset \ {a})

RECURSIVE UseOf(_)
UseOf(poolset) ==
    IF poolset = {} THEN 0
    ELSE LET a == CHOOSE x \in poolset : TRUE
         IN  use_cnt(pool[a]) + UseOf(poolset \ {a})

(* C11: Monitor::stat() returns one Count per type the Monitor tracks, with *)
(* pool_ the number of identities tracked for the type, total_ the sum of   *)
(* those pools' total_cnt() and use_ the sum of their use_cnt(); and the    *)
(* call changes no pool, nor the Monitor's sets, nor the Channel.           *)
C11_StatIsSnapshot ==
    [][last'.op = "stat" =>
          /\ DOMAIN last'.stat = DOMAIN mon_pools_
          /\ \A tidx \in DOMAIN mon_pools_ :
                /\ last'.stat[tidx].pool_ = Cardinality(mon_pools_[tidx])
                /\ last'.stat[tidx].total_ = TotalOf(mon_pools_[tidx])
                /\ last'.stat[tidx].use_ = UseOf(mon_pools_[tidx])
          /\ UNCHANGED <<pool, held, mon_pools_, chan_pools_, chan_mon_>>]_vars

(* C12: the Monitor holds no type with an empty set, whatever created and  *)
(* deleted calls it has received (a deleted call for a pool or a type it    *)
(* holds nothing of included): stat() returns no entry with pool_ 0, and    *)
(* the empty Stat while no created call has been received.                  *)
C12_NoEmptyTypeEntry ==
    /\ \A tidx \in DOMAIN mon_pools_ : mon_pools_[tidx] # {}
    /\ ~hist.seen => mon_pools_ = EmptyPools
    /\ last.op = "stat" =>
          /\ \A tidx \in DOMAIN last.stat : last.stat[tidx].pool_ >= 1
          /\ ~hist.seen => last.stat = EmptyPools

(* A deleted call has left the Monitor with nothing of its type, and the    *)
(* stat() that follows returns the other type only.                         *)
C12_Witness ==
    /\ last.op = "stat"
    /\ hist.seen
    /\ Len(notes) = 1 /\ notes[1].kind = "deleted"
    /\ notes[1].tidx \notin DOMAIN mon_pools_
    /\ DOMAIN last.stat = Types \ {notes[1].tidx}

----------------------------------------------------------------------------
(* Properties of the singleton accessors (SpecShared).                      *)

(* Thread th is inside the pool of type ty: it has taken the type's mutex   *)
(* and not yet released it (lazy first construction included).              *)
Inside(th, ty) ==
    /\ thr[th].ty = ty
    /\ thr[th].pc \in {"pool", "created_lock", "created", "op"}

(* Thread t is waiting for a mutex that thread u holds. *)
BlockedBy(t, u) ==
    /\ t # u
    /\ \/ /\ thr[t].pc = "lock"
          /\ mutex.type[get_singleton_mutex(thr[t].ty)] = u
       \/ /\ thr[t].pc = "created_lock"
          /\ mutex.chan = u

MutualExclusion ==
    \A ty \in Types : \A t, u \in Threads :
        Inside(t, ty) /\ Inside(u, ty) => t = u

(* C8 as stated: calls on one type are mutually exclusive, and a thread is  *)
(* never blocked by a call on a different type.                             *)
C8_TypesNeverBlockEachOther ==
    /\ MutualExclusion
    /\ \A t, u \in Threads : BlockedBy(t, u) => thr[u].ty = thr[t].ty

(* C8 amended: calls on one type are mutually exclusive, lazy first         *)
(* construction included; a thread waiting for its type's mutex waits only  *)
(* for a call on the same type, and the mutex of a type is free whenever no *)
(* call is inside that type's pool (the types have different mutexes); a    *)
(* call is blocked by a call on a different type only when both are         *)
(* constructing their pools and meet at the Channel's mutex.                *)
C8_SerializedPerType ==
    /\ MutualExclusion
    /\ \A t \in Threads :
          thr[t].pc = "lock" =>
             LET holder == mutex.type[get_singleton_mutex(thr[t].ty)]
             IN  /\ holder # 0 => Inside(holder, thr[t].ty)
                 /\ holder = 0 <=> ~ \E u \in Threads : Inside(u, thr[t].ty)
    /\ \A t, u \in Threads :
          BlockedBy(t, u) /\ thr[u].ty # thr[t].ty =>
             /\ thr[t].pc = "created_lock"
             /\ thr[u].pc = "created"

(* A thread is constructing the pool of a type, under the type's mutex,     *)
(* while a get_singleton call of another thread on that type waits for the  *)
(* mutex.                                                                   *)
C8_Witness ==
    \E t, u \in Threads :
        /\ t # u
        /\ thr[t].ty = thr[u].ty
        /\ thr[t].pc = "created"
        /\ thr[u].pc = "lock"
        /\ thr[u].op = "get"
        /\ BlockedBy(u, t)

----------------------------------------------------------------------------
(* Properties of the locks (SpecLocks).                                     *)

(* Thread u is running get() or ret() of the singleton pool at address a:   *)
(* it holds the type's mutex, the pool is constructed and registered, and   *)
(* the member function is what it runs next.                                *)
InGetRet(u, a) ==
    /\ thr[u].op \in {"get", "ret"}
    /\ singleton_addr(thr[u].ty) = a
    /\ thr[u].pc = "op" \/ (thr[u].pc = "pool" /\ pool[a].live)

(* C15: no read of a pool's counters by Monitor::stat overlaps a get() or   *)
(* ret() on that pool: the thread in stat() holds the mutex of the type of  *)
(* every singleton pool it reads.                                           *)
C15_StatReadsUnderTypeLock ==
    \A t \in Threads : \A a \in StatReads(t) :
        /\ ~ \E u \in Threads \ {t} : InGetRet(u, a)
        /\ (pool[a].live /\ a # LocalPool.a) =>
              mutex.type[get_singleton_mutex(pool[a].ty)] = t

(* The mutexes in their order: a type's mutex 1, the Channel's 2, the       *)
(* Monitor's 3.  Held: the ranks of the mutexes a thread holds; Wanted: the *)
(* rank of the mutex its next step takes (0: none).                         *)
Held(th) ==
    {1 : k \in {ty \in Types : mutex.type[ty] = th}}
      \cup (IF mutex.chan = th THEN {2} ELSE {})
      \cup (IF mutex.mon = th THEN {3} ELSE {})

Wanted(th) ==
    CASE thr[th].pc = "lock" -> 1
      [] thr[th].pc \in {"created_lock", "attach", "detach",
                         "local_created_lock", "local_deleted_lock"} -> 2
      [] thr[th].pc \in {"stat", "created", "set", "local_created",
                         "local_deleted"} -> 3
      [] OTHER -> 0

LockOrder ==
    \A th \in Threads :
        /\ Wanted(th) > 0 => \A r \in Held(th) : r < Wanted(th)
        /\ thr[th].pc = "idle" => Held(th) = {}

============================================================================
